---- MODULE Spec2Model ----
(***************************************************************************)
(* Model of the Tauri backend of medical-billing:                          *)
(*   src-tauri/src/print.rs      silent_print, check_printer_available,    *)
(*                               get_default_printer, list_printers,       *)
(*                               print_raw_text                            *)
(*   src-tauri/src/medicines.rs  import_bundled_medicines                  *)
(* Strings that the code inspects (printer names, spooled text) are        *)
(* sequences of one-character strings.  The operating system (default      *)
(* printer, temp file, spawned processes, the SQLite file) is the          *)
(* environment; async commands run concurrently on the Tauri runtime.      *)
(***************************************************************************)
EXTENDS Integers, Sequences, FiniteSets, TLC

VARIABLES
    platform,        \* build target: "windows" or "other" (cfg(windows))
    tempFile,        \* content of %TEMP%/medbill_receipt.html
    defaultPrinter,  \* the OS default printer name, "" when none is set
    edgeInstalled,   \* msedge.exe exists at one of the two probed paths
    pc,              \* per silent_print call: position in the function
    html_content,    \* per call: the argument
    printer_name,    \* per call: the local resolved at lines 46-53
    result,          \* per call: the returned Result<String, String>
    wrote,           \* per call: the call created / wrote the temp file
    proc,            \* per call: the strategy process the call spawned
    opResult,        \* result of the last directory operation
    raw,             \* the print_raw_text call in progress
    medicines,       \* rows of the live medicines table
    imp              \* per import_bundled_medicines call: its locals

vars == <<platform, tempFile, defaultPrinter, edgeInstalled, pc, html_content,
          printer_name, result, wrote, proc, opResult, raw, medicines, imp>>

printVars == <<tempFile, defaultPrinter, edgeInstalled, pc, html_content,
               printer_name, result, wrote, proc>>

----------------------------------------------------------------------------
(* Bounds *)

NumJobs == 2
MaxTextLen == 3
NumImporters == 2
BundleRows == 2
MaxCalls == 2

Jobs == 1..NumJobs
\* the bill each call is invoked with: every call carries its own receipt
Bill(j) == <<j>>
NoFile == [exists |-> FALSE, content |-> <<>>]
FileWith(content) == [exists |-> TRUE, content |-> content]
Importers == 1..NumImporters

----------------------------------------------------------------------------
(* Strings *)

Whitespace == {" ", "\r", "\n"}

UpperToLower ==
    [c \in {"P", "D", "F", "O", "N", "E", "T", "V", "S"} |->
        CASE c = "P" -> "p" [] c = "D" -> "d" [] c = "F" -> "f"
          [] c = "O" -> "o" [] c = "N" -> "n" [] c = "E" -> "e"
          [] c = "T" -> "t" [] c = "V" -> "v" [] c = "S" -> "s"]

to_lowercase(s) ==
    [i \in 1..Len(s) |-> IF s[i] \in DOMAIN UpperToLower THEN UpperToLower[s[i]] ELSE s[i]]

contains(s, sub) ==
    \E i \in 1..(Len(s) - Len(sub) + 1) : SubSeq(s, i, i + Len(sub) - 1) = sub

RECURSIVE trim_start(_)
trim_start(s) ==
    IF s # <<>> /\ Head(s) \in Whitespace THEN trim_start(Tail(s)) ELSE s

RECURSIVE trim_end(_)
trim_end(s) ==
    IF s # <<>> /\ s[Len(s)] \in Whitespace
    THEN trim_end(SubSeq(s, 1, Len(s) - 1)) ELSE s

trim(s) == trim_end(trim_start(s))

pdf == <<"p", "d", "f">>
onenote == <<"o", "n", "e", "n", "o", "t", "e">>

TVS == <<"T", "V", "S">>
PdfWriter == <<"t", "o", " ", "P", "d", "F">>
OneNote == <<"O", "N", "E", "n", "o", "t", "e">>
PrinterNames == {<<>>, TVS, PdfWriter, OneNote}

\* stdout of  (Get-CimInstance ... | Where-Object {$_.Default -eq $true}).Name
DefaultQueryStdout(name) == IF name = <<>> THEN <<>> ELSE name \o <<"\r", "\n">>

----------------------------------------------------------------------------
(* Result<String, String> values *)

NoResult == [ok |-> FALSE, kind |-> "none", text |-> <<>>]
Ok(kind, text) == [ok |-> TRUE, kind |-> kind, text |-> text]
Err(kind, text) == [ok |-> FALSE, kind |-> kind, text |-> text]

NoProc == [kind |-> "none", state |-> "none", read |-> {},
           status |-> "none", stdout |-> <<>>, printedOn |-> {}]

Line(tag, text) == [tag |-> tag, text |-> text]

----------------------------------------------------------------------------
(* silent_print *)

\* the guard as it would be without to_lowercase; C3 must tell the two apart
IsVirtualPrinter_CaseSensitive(name) ==
    contains(name, pdf) \/ contains(name, onenote)

\* print.rs 60-61
IsVirtualPrinter(name) ==
    contains(to_lowercase(name), pdf) \/ contains(to_lowercase(name), onenote)

Finish(j, r) ==
    /\ result' = [result EXCEPT ![j] = r]
    /\ pc' = [pc EXCEPT ![j] = "done"]

\* the frontend invokes the command; File::create truncates the one fixed path
Call(j) ==
    /\ pc[j] = "idle"
    /\ html_content' = [html_content EXCEPT ![j] = Bill(j)]
    /\ tempFile' = FileWith(<<>>)
    /\ wrote' = [wrote EXCEPT ![j] = TRUE]
    /\ pc' = [pc EXCEPT ![j] = "write"]
    /\ UNCHANGED <<platform, defaultPrinter, edgeInstalled, printer_name,
                   result, proc, opResult, raw, medicines, imp>>

\* File::create returned Err
CallCreateFails(j) ==
    /\ pc[j] = "idle"
    /\ html_content' = [html_content EXCEPT ![j] = Bill(j)]
    /\ Finish(j, Err("TempFileIO", <<>>))
    /\ UNCHANGED <<platform, tempFile, defaultPrinter, edgeInstalled,
                   printer_name, wrote, proc, opResult, raw, medicines, imp>>

\* write_all + flush + drop; on a non-Windows build the function then returns
WriteAll(j) ==
    /\ pc[j] = "write"
    /\ tempFile' = FileWith(html_content[j])
    /\ IF platform = "windows"
       THEN /\ pc' = [pc EXCEPT ![j] = "resolve"]
            /\ UNCHANGED result
       ELSE Finish(j, Err("Unsupported", <<>>))
    /\ UNCHANGED <<platform, defaultPrinter, edgeInstalled, html_content, printer_name,
                   wrote, proc, opResult, raw, medicines, imp>>

WriteAllFails(j) ==
    /\ pc[j] = "write"
    /\ Finish(j, Err("TempFileIO", <<>>))
    /\ UNCHANGED <<platform, tempFile, defaultPrinter, edgeInstalled, html_content,
                   printer_name, wrote, proc, opResult, raw, medicines, imp>>

Running(kind) == [NoProc EXCEPT !.kind = kind, !.state = "running"]

\* Query the default printer, take the two early returns, probe for msedge.exe
\* and start the first strategy process that can be started.  The call then
\* blocks in Command::output() until that process exits.
Resolve(j) ==
    /\ pc[j] = "resolve"
    /\ \E spawned \in BOOLEAN, edgeSpawned \in BOOLEAN, scriptSpawned \in BOOLEAN :
         LET name == IF spawned THEN trim(DefaultQueryStdout(defaultPrinter)) ELSE <<>>
         IN /\ printer_name' = [printer_name EXCEPT ![j] = name]
            /\ IF name = <<>>
               THEN Finish(j, Err("NoDefaultPrinter", <<>>)) /\ UNCHANGED proc
               ELSE IF IsVirtualPrinter(name)
               THEN Finish(j, Err("UnsuitablePrinter", name)) /\ UNCHANGED proc
               ELSE IF edgeInstalled /\ edgeSpawned
               THEN /\ proc' = [proc EXCEPT ![j] = Running("edge")]
                    /\ pc' = [pc EXCEPT ![j] = "edge_wait"]
                    /\ UNCHANGED result
               ELSE IF scriptSpawned
               THEN /\ proc' = [proc EXCEPT ![j] = Running("script")]
                    /\ pc' = [pc EXCEPT ![j] = "script_wait"]
                    /\ UNCHANGED result
               ELSE Finish(j, Err("ExecFailed", <<>>)) /\ UNCHANGED proc
    /\ UNCHANGED <<platform, tempFile, defaultPrinter, edgeInstalled, html_content,
                   wrote, opResult, raw, medicines, imp>>

\* The Edge process loads file_url, prints on the OS default printer and exits;
\* output() is then Ok whatever the exit status, and the call returns
\* Ok("Print job sent to {printer_name}").
EdgeExits(j) ==
    /\ pc[j] = "edge_wait"
    /\ \E status \in {"exit_ok", "exit_error"} :
         proc' = [proc EXCEPT ![j] =
                    [@ EXCEPT !.state = "exited", !.status = status,
                              !.read = IF status = "exit_ok" THEN {tempFile} ELSE {},
                              !.printedOn = IF status = "exit_ok" THEN {defaultPrinter} \ {<<>>}
                                           ELSE {}]]
    /\ Finish(j, Ok("sent", printer_name[j]))
    /\ UNCHANGED <<platform, tempFile, defaultPrinter, edgeInstalled, html_content,
                   printer_name, wrote, opResult, raw, medicines, imp>>

\* stdout of ps_script for each way it can end
ScriptStdout(outcome, printer) ==
    CASE outcome = "ie_printed" ->
           <<Line("PRINTER", printer), Line("SUCCESS", <<>>)>>
      [] outcome = "shell_printed" ->
           <<Line("PRINTER", printer), Line("IE_FAILED", <<>>), Line("SUCCESS", <<>>)>>
      [] outcome = "both_failed" ->
           <<Line("PRINTER", printer), Line("IE_FAILED", <<>>), Line("ERROR", <<>>)>>
      [] outcome = "no_output" -> <<>>

HasTag(out, tag) == \E i \in 1..Len(out) : out[i].tag = tag

FirstWithTag(out, tags) ==
    out[CHOOSE i \in 1..Len(out) :
          /\ out[i].tag \in tags
          /\ \A k \in 1..(i - 1) : out[k].tag \notin tags]

\* print.rs 184-208
ClassifyScriptOutput(out) ==
    IF HasTag(out, "SUCCESS")
    THEN Ok("sent", IF HasTag(out, "PRINTER")
                    THEN FirstWithTag(out, {"PRINTER"}).text ELSE <<>>)
    ELSE IF HasTag(out, "ERROR") \/ HasTag(out, "IE_FAILED")
    THEN Err(FirstWithTag(out, {"ERROR", "IE_FAILED"}).tag, <<>>)
    ELSE Ok("initiated", <<>>)

\* The PowerShell process re-queries the default printer, prints $filePath
\* through IE or the shell "print" verb and exits; the call classifies stdout.
ScriptExits(j) ==
    /\ pc[j] = "script_wait"
    /\ \E outcome \in {"ie_printed", "shell_printed", "both_failed", "no_output"} :
         LET printed == outcome \in {"ie_printed", "shell_printed"}
             out == ScriptStdout(outcome, defaultPrinter)
         IN /\ proc' = [proc EXCEPT ![j] =
                          [@ EXCEPT !.state = "exited", !.status = outcome,
                                    !.stdout = out,
                                    !.read = IF printed THEN {tempFile} ELSE {},
                                    !.printedOn = IF printed THEN {defaultPrinter} \ {<<>>}
                                                 ELSE {}]]
            /\ Finish(j, ClassifyScriptOutput(out))
    /\ UNCHANGED <<platform, tempFile, defaultPrinter, edgeInstalled, html_content,
                   printer_name, wrote, opResult, raw, medicines, imp>>

\* the operator changes the default printer in Windows Settings (a change
\* after every call has returned is observed by no call)
SetDefaultPrinter(p) ==
    /\ p # defaultPrinter
    /\ \E j \in Jobs : pc[j] # "done"
    /\ defaultPrinter' = p
    /\ UNCHANGED <<platform, tempFile, edgeInstalled, pc, html_content, printer_name,
                   result, wrote, proc, opResult, raw, medicines, imp>>

\* the steps silent_print takes by itself
SilentPrintStep(j) ==
    \/ Call(j) \/ CallCreateFails(j)
    \/ WriteAll(j) \/ WriteAllFails(j)
    \/ Resolve(j)

\* the steps that wait for a spawned process to exit
ProcessStep(j) == EdgeExits(j) \/ ScriptExits(j)

----------------------------------------------------------------------------
(* check_printer_available, get_default_printer, list_printers *)

NoOp == [op |-> "none", ok |-> FALSE, kind |-> "none", flag |-> FALSE, names |-> <<>>]

OpOk(op, flag, names) ==
    [op |-> op, ok |-> TRUE, kind |-> "value", flag |-> flag, names |-> names]
OpErr(op, kind) ==
    [op |-> op, ok |-> FALSE, kind |-> kind, flag |-> FALSE, names |-> <<>>]

check_printer_available ==
    /\ \E spawned \in BOOLEAN :
         opResult' =
           IF platform = "windows"
           THEN IF spawned
                THEN OpOk("check_printer_available",
                          trim(DefaultQueryStdout(defaultPrinter)) # <<>>, <<>>)
                ELSE OpOk("check_printer_available", FALSE, <<>>)
           ELSE OpOk("check_printer_available", FALSE, <<>>)
    /\ UNCHANGED <<platform, printVars, raw, medicines, imp>>

get_default_printer ==
    /\ \E spawned \in BOOLEAN :
         LET name == trim(DefaultQueryStdout(defaultPrinter))
         IN opResult' =
              IF platform = "windows"
              THEN IF spawned
                   THEN IF name = <<>>
                        THEN OpErr("get_default_printer", "NoDefaultPrinter")
                        ELSE OpOk("get_default_printer", FALSE, <<name>>)
                   ELSE OpErr("get_default_printer", "QueryFailed")
              ELSE OpErr("get_default_printer", "Unsupported")
    /\ UNCHANGED <<platform, printVars, raw, medicines, imp>>

\* stdout lines of  Get-CimInstance ... | Select-Object -ExpandProperty Name
ListStdouts ==
    { <<>>,
      <<TVS \o <<" ">>, <<" ">>, PdfWriter>>,
      << <<>>, OneNote >> }

TrimLines(lines) == [i \in 1..Len(lines) |-> trim(lines[i])]
NonEmpty(line) == line # <<>>

list_printers ==
    /\ \E spawned \in BOOLEAN, lines \in ListStdouts :
         opResult' =
           IF platform = "windows"
           THEN IF spawned
                THEN OpOk("list_printers", FALSE, SelectSeq(TrimLines(lines), NonEmpty))
                ELSE OpErr("list_printers", "QueryFailed")
           ELSE OpErr("list_printers", "Unsupported")
    /\ UNCHANGED <<platform, printVars, raw, medicines, imp>>

----------------------------------------------------------------------------
(* print_raw_text *)

\* one-character strings; the grave accent is written by name
Quote == "'"
Backtick == "GRAVE"
TextAlphabet == {Quote, Backtick, "@", "\n", "a"}
Texts == UNION {[1..n -> TextAlphabet] : n \in 0..MaxTextLen}
QuotedName == <<"O", Quote, "K">>
RawPrinters == {<<>>, << TVS >>, << QuotedName >>}

RECURSIVE replace(_, _, _)
replace(s, c, r) ==
    IF s = <<>> THEN <<>>
    ELSE (IF Head(s) = c THEN r ELSE <<Head(s)>>) \o replace(Tail(s), c, r)

\* print.rs 329
escape_text(text) ==
    replace(replace(text, Quote, <<Quote, Quote>>), Backtick, <<Backtick, Backtick>>)

\* print.rs 323-327
printer_arg(printer) ==
    IF printer = <<>> THEN <<>>
    ELSE <<"-PrinterName ", Quote>> \o replace(printer[1], Quote, <<Quote, Quote>>)
         \o <<Quote>>

\* PowerShell ends a single-quoted here-string at the first line that begins
\* with '@ and takes everything before it literally
IsTerminatorAt(body, i) ==
    /\ i = 1 \/ body[i - 1] = "\n"
    /\ i + 1 <= Len(body)
    /\ body[i] = Quote
    /\ body[i + 1] = "@"

Terminators(body) == {i \in 1..Len(body) : IsTerminatorAt(body, i)}

FirstTerminator(body) ==
    CHOOSE i \in Terminators(body) : \A k \in Terminators(body) : i <= k

\* the value of $content for the script built at print.rs 331-340
HereStringContent(body) ==
    IF Terminators(body) = {} THEN body
    ELSE IF FirstTerminator(body) = 1 THEN <<>>
    ELSE SubSeq(body, 1, FirstTerminator(body) - 2)

NoRaw == [pc |-> "idle", text |-> <<>>, printer |-> <<>>, escaped |-> <<>>,
          arg |-> <<>>, payload |-> <<>>, breakout |-> FALSE,
          stdoutSuccess |-> FALSE, stderr |-> "", result |-> NoResult]

print_raw_text(text, printer) ==
    /\ raw.pc = "idle"
    /\ raw' = IF platform = "windows"
              THEN [raw EXCEPT !.pc = "running", !.text = text, !.printer = printer,
                               !.escaped = escape_text(text),
                               !.arg = printer_arg(printer)]
              ELSE [raw EXCEPT !.pc = "done", !.text = text, !.printer = printer,
                               !.result = Err("Unsupported", <<>>)]
    /\ UNCHANGED <<platform, printVars, opResult, medicines, imp>>

\* Command::output() returned Err
RawSpawnFails ==
    /\ raw.pc = "running"
    /\ raw' = [raw EXCEPT !.pc = "done", !.result = Err("ExecFailed", <<>>)]
    /\ UNCHANGED <<platform, printVars, opResult, medicines, imp>>

\* PowerShell ran the script and exited; print.rs 355-364 classifies its output
RawExits ==
    /\ raw.pc = "running"
    /\ \E stdoutSuccess \in BOOLEAN, stderr \in {"", "Out-Printer : error"} :
         raw' = [raw EXCEPT !.pc = "done",
                            !.payload = HereStringContent(raw.escaped),
                            !.breakout = Terminators(raw.escaped) # {},
                            !.stdoutSuccess = stdoutSuccess,
                            !.stderr = stderr,
                            !.result = IF stdoutSuccess
                                       THEN Ok("raw_sent", <<>>)
                                       ELSE Err("PrintFailed", <<stderr>>)]
    /\ UNCHANGED <<platform, printVars, opResult, medicines, imp>>

----------------------------------------------------------------------------
(* import_bundled_medicines *)

NoImport == [pc |-> "idle", current_count |-> 0, calls |-> 0, queryFailed |-> FALSE,
             inserted |-> 0, result |-> NoResult]

\* lines 24-37: resolve the paths, check the bundle, open the live database
ImportCall(i) ==
    /\ imp[i].pc \in {"idle", "done"}
    /\ imp[i].calls < MaxCalls
    /\ \E bundleExists \in BOOLEAN, opened \in BOOLEAN :
         imp' = [imp EXCEPT ![i] =
                   IF ~bundleExists
                   THEN [@ EXCEPT !.pc = "done", !.calls = @ + 1,
                                  !.result = Err("BundleNotFound", <<>>)]
                   ELSE IF ~opened
                   THEN [@ EXCEPT !.pc = "done", !.calls = @ + 1,
                                  !.result = Err("OpenFailed", <<>>)]
                   ELSE [@ EXCEPT !.pc = "count", !.calls = @ + 1, !.result = NoResult]]
    /\ UNCHANGED <<platform, printVars, opResult, raw, medicines>>

\* lines 40-54: SELECT COUNT(*), unwrap_or(0), return early when rows exist
ImportCount(i) ==
    /\ imp[i].pc = "count"
    /\ \E queried \in BOOLEAN :
         LET count == IF queried THEN medicines ELSE 0
         IN imp' = [imp EXCEPT ![i] =
                      IF count > 0
                      THEN [@ EXCEPT !.pc = "done", !.current_count = count,
                                     !.result = Ok("count", <<count>>)]
                      ELSE [@ EXCEPT !.pc = "insert", !.current_count = count,
                                     !.queryFailed = @ \/ ~queried]]
    /\ UNCHANGED <<platform, printVars, opResult, raw, medicines>>

\* lines 59-83: ATTACH, INSERT ... SELECT, DETACH, each in autocommit mode
ImportInsert(i) ==
    /\ imp[i].pc = "insert"
    /\ \E failure \in {"none", "attach", "insert", "detach"} :
         LET copied == failure \in {"none", "detach"}
         IN /\ medicines' = IF copied THEN medicines + BundleRows ELSE medicines
            /\ imp' = [imp EXCEPT ![i] =
                         [@ EXCEPT !.pc = "done",
                                   !.inserted = IF copied THEN @ + 1 ELSE @,
                                   !.result = IF failure = "none"
                                              THEN Ok("imported", <<BundleRows>>)
                                              ELSE Err(failure, <<>>)]]
    /\ UNCHANGED <<platform, printVars, opResult, raw>>

----------------------------------------------------------------------------
(* Specifications *)

Init ==
    /\ platform \in {"windows", "other"}
    /\ tempFile = NoFile
    /\ defaultPrinter \in PrinterNames
    /\ edgeInstalled \in BOOLEAN
    /\ pc = [j \in Jobs |-> "idle"]
    /\ html_content = [j \in Jobs |-> <<>>]
    /\ printer_name = [j \in Jobs |-> <<>>]
    /\ result = [j \in Jobs |-> NoResult]
    /\ wrote = [j \in Jobs |-> FALSE]
    /\ proc = [j \in Jobs |-> NoProc]
    /\ opResult = NoOp
    /\ raw = NoRaw
    /\ medicines = 0
    /\ imp = [i \in Importers |-> NoImport]

\* concurrent silent_print calls against a changing default printer
Next ==
    \/ \E j \in Jobs : SilentPrintStep(j)
    \/ \E j \in Jobs : ProcessStep(j)
    \/ \E p \in PrinterNames : SetDefaultPrinter(p)

Spec == Init /\ [][Next]_vars

\* the runtime keeps polling every command future; the OS owes nothing
FairSpec == Spec /\ \A j \in Jobs : WF_vars(SilentPrintStep(j))

\* the printer directory and the raw spool sender
ApiNext ==
    \/ check_printer_available
    \/ get_default_printer
    \/ list_printers
    \/ \E text \in Texts, printer \in RawPrinters : print_raw_text(text, printer)
    \/ RawSpawnFails
    \/ RawExits

ApiSpec == Init /\ [][ApiNext]_vars

\* concurrent import_bundled_medicines calls
ImportNext ==
    \E i \in Importers : ImportCall(i) \/ ImportCount(i) \/ ImportInsert(i)

ImportSpec == Init /\ [][ImportNext]_vars

----------------------------------------------------------------------------
(* Properties *)

\* C1: between a job's write of the temp file and the moment its print
\* strategy reads it, no other job changes the file: whatever a strategy
\* process of job j read is exactly the markup j was called with.
C1_JobPrintsOwnMarkup ==
    \A j \in Jobs : \A f \in proc[j].read : f = FileWith(html_content[j])

\* C2: a call that returns the no-default-printer failure has not created or
\* written the temp file.
C2_NoDefaultPrinterWritesNothing ==
    \A j \in Jobs :
        (pc[j] = "done" /\ result[j].kind = "NoDefaultPrinter") => ~wrote[j]

MatchesIgnoringCase(name, word) ==
    \E i \in 1..(Len(name) - Len(word) + 1) :
        \A k \in 1..Len(word) :
            LET c == name[i + k - 1]
            IN c = word[k] \/ (c \in DOMAIN UpperToLower /\ UpperToLower[c] = word[k])

\* C3: when the resolved printer name contains "pdf" or "onenote" in any
\* letter case, the call has ended with the unsuitable-printer error naming
\* that printer and has started neither the Edge process nor the script.
C3_VirtualPrinterNeverPrinted ==
    \A j \in Jobs :
        (MatchesIgnoringCase(printer_name[j], pdf)
           \/ MatchesIgnoringCase(printer_name[j], onenote))
        => /\ pc[j] = "done"
           /\ result[j] = Err("UnsuitablePrinter", printer_name[j])
           /\ proc[j] = NoProc

\* two calls rejected, one for a mixed-case PDF printer, one for OneNote
C3_Witness ==
    \E j, k \in Jobs :
        /\ printer_name[j] = PdfWriter /\ result[j].kind = "UnsuitablePrinter"
        /\ printer_name[k] = OneNote /\ result[k].kind = "UnsuitablePrinter"

\* C4: a call returns success only if a strategy succeeded: the Edge process
\* exited without error, or the script printed through IE or the shell verb.
C4_SuccessOnlyIfStrategySucceeded ==
    \A j \in Jobs :
        result[j].ok => proc[j].status \in {"exit_ok", "ie_printed", "shell_printed"}

\* C5: the name resolved at the start of a call is the one that passed the
\* guard, the only printer the job was printed on and the one a success
\* message "Print job sent to ..." reports.
C5_OneTargetPrinter ==
    \A j \in Jobs :
        (result[j].ok /\ result[j].kind = "sent") =>
            /\ result[j].text = printer_name[j]
            /\ proc[j].printedOn \subseteq {printer_name[j]}
            /\ ~MatchesIgnoringCase(result[j].text, pdf)
            /\ ~MatchesIgnoringCase(result[j].text, onenote)

\* C6: on a non-supported platform silent_print leaves the temp file alone,
\* starts no process, and returns nothing but the platform-unsupported error.
C6_UnsupportedPlatformDoesNothing ==
    platform = "other" =>
        /\ tempFile = NoFile
        /\ \A j \in Jobs :
             /\ ~wrote[j]
             /\ proc[j] = NoProc
             /\ pc[j] = "done" => result[j] = Err("Unsupported", <<>>)

\* C7: once PowerShell has run, print_raw_text fails exactly when the error
\* stream is non-empty, whatever was written to standard output.
C7_FailsIffStderrNonEmpty ==
    (raw.pc = "done" /\ raw.result.kind \in {"raw_sent", "PrintFailed"})
    => (raw.result.ok <=> raw.stderr = "")

\* C8: a call waiting for the Edge process eventually returns, also when the
\* process never exits.
C8_EngineWaitEnds ==
    \A j \in Jobs : (pc[j] = "edge_wait") ~> (pc[j] = "done")

\* C9: the payload PowerShell hands to Out-Printer is the input text, character
\* for character, and no part of the text ends the quoted block.
C9_PayloadIsText ==
    (raw.pc = "done" /\ raw.result.kind \in {"raw_sent", "PrintFailed"})
    => (raw.payload = raw.text /\ ~raw.breakout)

\* C10: as long as every count query succeeded, the bundled rows are in the
\* live table at most once, however the import calls interleave.
C10_ImportedAtMostOnce ==
    (\A i \in Importers : ~imp[i].queryFailed) => medicines <= BundleRows

====
